---- MODULE Spec2Model ----
(***************************************************************************)
(* Model of txpool/types.go: the RLP primitives (beInt, prefix,            *)
(* parseUint64, parseUint256) and TxParseContext.ParseTransaction, run by  *)
(* a worker that owns one TxParseContext and parses a batch of payloads.   *)
(*                                                                         *)
(* Conventions.  A payload is a sequence of bytes (0..255); Go's 0-based   *)
(* payload[i] is At(payload, i).  A uint64 is its 8 big-endian bytes and a *)
(* uint256.Int its 32 big-endian bytes (limb z[3] first), so shifts and    *)
(* subtractions keep their width.  Go's int (positions and lengths) is an  *)
(* integer; the payloads of the model keep every decoded length below      *)
(* 2^24, so no int addition wraps.  A Keccak accumulator is the sequence   *)
(* of bytes written to it since its last Reset, and a digest is the        *)
(* accumulator's content at the time of Sum (Keccak-256 is taken to be     *)
(* injective).  An index or slice out of range is Go's run-time panic:     *)
(* status "panic".  cap(payload) is taken to be len(payload).              *)
(***************************************************************************)
EXTENDS Integers, Sequences, FiniteSets, TLC

VARIABLES ctx, queue, input, result, calls

vars == <<ctx, queue, input, result, calls>>

----------------------------------------------------------------------------
(* Bytes, slices and fixed-width integers *)

At(payload, i) == payload[i + 1]

InRange(payload, i) == 0 <= i /\ i < Len(payload)

SliceOk(payload, lo, hi) == 0 <= lo /\ lo <= hi /\ hi <= Len(payload)

Slice(payload, lo, hi) == SubSeq(payload, lo + 1, hi)

Zeros(n) == [i \in 1..n |-> 0]

\* left-pad (or cut to the low bytes) to a big-endian array of w bytes
Pad(bytes, w) ==
  IF Len(bytes) >= w THEN SubSeq(bytes, Len(bytes) - w + 1, Len(bytes))
  ELSE Zeros(w - Len(bytes)) \o bytes

\* binary.BigEndian.PutUint64 of a non-negative int: its 8 big-endian bytes
RECURSIVE IntBytes(_, _)
IntBytes(n, w) == IF w = 0 THEN <<>> ELSE IntBytes(n \div 256, w - 1) \o <<n % 256>>

PutUint64(b, off, bytes8) ==
  [i \in 1..Len(b) |-> IF i > off /\ i <= off + 8 THEN bytes8[i - off] ELSE b[i]]

\* bits.Len
RECURSIVE BitsLen(_)
BitsLen(n) == IF n = 0 THEN 0 ELSE 1 + BitsLen(n \div 2)

\* uint256.Int, limb i (z[0] is the least significant) as 8 big-endian bytes
Limb(x, i) == SubSeq(x, 8 * (3 - i) + 1, 8 * (3 - i) + 8)

U256(n) == IntBytes(n, 32)

\* x - y mod 2^256: byte i borrows when the bytes below it are less in x than in y
BorrowInto(x, y, i) ==
  \E j \in (i + 1)..32 : x[j] < y[j] /\ \A k \in (i + 1)..(j - 1) : x[k] = y[k]

U256Sub(x, y) ==
  [i \in 1..32 |-> (x[i] - y[i] - (IF BorrowInto(x, y, i) THEN 1 ELSE 0)) % 256]

U256Rsh1(x) ==
  [i \in 1..32 |-> (x[i] \div 2) + (IF i > 1 THEN (x[i - 1] % 2) * 128 ELSE 0)]

U256BitLen(x) ==
  IF \A i \in 1..32 : x[i] = 0 THEN 0
  ELSE LET top == CHOOSE i \in 1..32 : x[i] # 0 /\ \A k \in 1..(i - 1) : x[k] = 0
       IN (32 - top) * 8 + BitsLen(x[top])

\* a digest: Sum of an accumulator holding `bytes`
Keccak256(bytes) == [set |-> TRUE, preimage |-> bytes]

ZeroHash == [set |-> FALSE, preimage |-> <<>>]

----------------------------------------------------------------------------
(* RLP primitives *)

RECURSIVE beIntLoop(_, _)
beIntLoop(bytes, r) ==
  IF bytes = <<>> THEN r ELSE beIntLoop(Tail(bytes), r * 256 + Head(bytes))

beInt(payload, pos, length) ==
  IF length > 0 /\ ~InRange(payload, pos) THEN [st |-> "panic", r |-> 0]
  ELSE IF length > 0 /\ At(payload, pos) = 0 THEN [st |-> "err", r |-> 0]
  ELSE IF ~SliceOk(payload, pos, pos + length) THEN [st |-> "panic", r |-> 0]
  ELSE [st |-> "ok", r |-> beIntLoop(Slice(payload, pos, pos + length), 0)]

prefix(payload, pos) ==
  IF ~InRange(payload, pos)
  THEN [st |-> "panic", dataPos |-> 0, dataLen |-> 0, list |-> FALSE]
  ELSE LET first == At(payload, pos) IN
    IF first < 128 THEN [st |-> "ok", dataPos |-> pos, dataLen |-> 1, list |-> FALSE]
    ELSE IF first < 184
    THEN [st |-> "ok", dataPos |-> pos + 1, dataLen |-> first - 128, list |-> FALSE]
    ELSE IF first < 192
    THEN LET beLen == first - 183
             be == beInt(payload, pos + 1, beLen)
         IN [st |-> be.st, dataPos |-> pos + 1 + beLen, dataLen |-> be.r, list |-> FALSE]
    ELSE IF first < 248
    THEN [st |-> "ok", dataPos |-> pos + 1, dataLen |-> first - 192, list |-> TRUE]
    ELSE LET beLen == first - 247
             be == beInt(payload, pos + 1, beLen)
         IN [st |-> be.st, dataPos |-> pos + 1 + beLen, dataLen |-> be.r, list |-> TRUE]

\* r = (r << 8) | uint64(b) on a 64-bit word
RECURSIVE u64Loop(_, _)
u64Loop(bytes, r) ==
  IF bytes = <<>> THEN r ELSE u64Loop(Tail(bytes), Tail(r) \o <<Head(bytes)>>)

parseUint64(payload, pos) ==
  LET pre == prefix(payload, pos)
      fail(st) == [st |-> st, p |-> 0, r |-> Zeros(8)]
  IN IF pre.st # "ok" THEN fail(pre.st)
     ELSE IF pre.list THEN fail("err")
     ELSE IF pre.dataPos + pre.dataLen >= Len(payload) THEN fail("err")
     ELSE IF pre.dataLen > 8 THEN fail("err")
     ELSE IF pre.dataLen > 0 /\ At(payload, pre.dataPos) = 0 THEN fail("err")
     ELSE IF ~SliceOk(payload, pre.dataPos, pre.dataPos + pre.dataLen) THEN fail("panic")
     ELSE [st |-> "ok", p |-> pre.dataPos + pre.dataLen,
           r |-> u64Loop(Slice(payload, pre.dataPos, pre.dataPos + pre.dataLen), Zeros(8))]

\* x is the value of the uint256.Int before the call; it is kept on failure
parseUint256(payload, pos, x) ==
  LET pre == prefix(payload, pos)
      fail(st) == [st |-> st, p |-> 0, x |-> x]
  IN IF pre.st # "ok" THEN fail(pre.st)
     ELSE IF pre.list THEN fail("err")
     ELSE IF pre.dataPos + pre.dataLen > Len(payload) THEN fail("err")
     ELSE IF pre.dataLen > 32 THEN fail("err")
     ELSE IF pre.dataLen > 0 /\ ~InRange(payload, pre.dataPos) THEN fail("panic")
     ELSE IF pre.dataLen > 0 /\ At(payload, pre.dataPos) = 0 THEN fail("err")
     ELSE IF ~SliceOk(payload, pre.dataPos, pre.dataPos + pre.dataLen) THEN fail("panic")
     ELSE [st |-> "ok", p |-> pre.dataPos + pre.dataLen,
           x |-> Pad(Slice(payload, pre.dataPos, pre.dataPos + pre.dataLen), 32)]

----------------------------------------------------------------------------
(* The parse context and the locals of ParseTransaction *)

LegacyTxType == 0
AccessListTxType == 1
DynamicFeeTxType == 2

NewTxParseContext ==
  [keccak1 |-> <<>>, keccak2 |-> <<>>,
   v |-> Zeros(32), r |-> Zeros(32), s |-> Zeros(32),
   n27 |-> U256(27), n28 |-> U256(28), n35 |-> U256(35),
   buf |-> Zeros(33), sighash |-> ZeroHash, sig |-> Zeros(65)]

\* var slot TxSlot: the zero value
TxSlot ==
  [nonce |-> Zeros(8), tip |-> Zeros(8), feeCap |-> Zeros(8), gas |-> Zeros(8),
   value |-> Zeros(32), creation |-> FALSE, dataLen |-> 0,
   alAddrCount |-> 0, alStorCount |-> 0, idHash |-> ZeroHash]

\* the context and the local variables at the entry of ParseTransaction
Locals(c, pos) ==
  [status |-> "run", err |-> "", c |-> c, slot |-> TxSlot, pos |-> pos, p |-> 0,
   dataPos |-> 0, dataLen |-> 0, list |-> FALSE, legacy |-> FALSE, txType |-> 0,
   sigHashPos |-> 0, sigHashEnd |-> 0, sigHashLen |-> 0,
   chainIdBits |-> 0, chainIdLen |-> 0, vByte |-> 0,
   tuplePos |-> 0, tupleLen |-> 0, skeyPos |-> 0]

Fail(s, what) == [s EXCEPT !.status = "err", !.err = what]

Panic(s) == [s EXCEPT !.status = "panic"]

\* a primitive that did not return normally: its error is wrapped, its panic unwinds
Stop(s, st, what) == IF st = "panic" THEN Panic(s) ELSE Fail(s, what)

----------------------------------------------------------------------------
(* ParseTransaction, in the order of the source *)

\* OuterPrefix without keccak1.Reset
OuterPrefixNoReset(c, payload, pos) ==
  IF Len(payload) = 0 THEN Fail(Locals(c, pos), "empty rlp")
  ELSE LET s0 == Locals(c, pos)
           pre == prefix(payload, pos)
       IN IF pre.st # "ok" THEN Stop(s0, pre.st, "size prefix")
          ELSE IF pre.dataPos + pre.dataLen # Len(payload)
          THEN Fail(s0, "transaction must be either 1 list or 1 string")
          ELSE [s0 EXCEPT !.dataPos = pre.dataPos, !.dataLen = pre.dataLen,
                          !.legacy = pre.list, !.p = pre.dataPos]

\* OuterPrefix with the bound of the outer item checked like that of the envelope
OuterPrefixLoose(c, payload, pos) ==
  IF Len(payload) = 0 THEN Fail(Locals(c, pos), "empty rlp")
  ELSE LET s0 == [Locals(c, pos) EXCEPT !.c.keccak1 = <<>>]
           pre == prefix(payload, pos)
       IN IF pre.st # "ok" THEN Stop(s0, pre.st, "size prefix")
          ELSE IF pre.dataPos + pre.dataLen > Len(payload)
          THEN Fail(s0, "transaction must be either 1 list or 1 string")
          ELSE [s0 EXCEPT !.dataPos = pre.dataPos, !.dataLen = pre.dataLen,
                          !.legacy = pre.list, !.p = pre.dataPos]

\* the empty check, keccak1.Reset and the outer prefix
OuterPrefix(c, payload, pos) ==
  IF Len(payload) = 0 THEN Fail(Locals(c, pos), "empty rlp")
  ELSE LET s0 == [Locals(c, pos) EXCEPT !.c.keccak1 = <<>>]
           pre == prefix(payload, pos)
       IN IF pre.st # "ok" THEN Stop(s0, pre.st, "size prefix")
          ELSE IF pre.dataPos + pre.dataLen # Len(payload)
          THEN Fail(s0, "transaction must be either 1 list or 1 string")
          ELSE [s0 EXCEPT !.dataPos = pre.dataPos, !.dataLen = pre.dataLen,
                          !.legacy = pre.list, !.p = pre.dataPos]

\* the type byte and the envelope of a non-legacy transaction
Envelope(payload, s) ==
  IF s.status # "run" THEN s ELSE
  IF s.legacy THEN s
  ELSE IF ~InRange(payload, s.p) THEN Panic(s)
  ELSE LET typeByte == Slice(payload, s.p, s.p + 1)
           s1 == [s EXCEPT !.txType = At(payload, s.p),
                           !.c.keccak1 = @ \o typeByte,
                           !.c.keccak2 = @ \o typeByte,
                           !.p = s.p + 1]
       IN IF s1.p >= Len(payload) THEN Fail(s1, "unexpected end of payload after txType")
          ELSE LET pre == prefix(payload, s1.p) IN
            IF pre.st # "ok" THEN Stop(s1, pre.st, "envelope prefix")
            ELSE IF ~pre.list THEN Fail(s1, "envelope must be a list, not string")
            ELSE IF pre.dataPos + pre.dataLen > Len(payload)
            THEN Fail(s1, "unexpected end of payload after envelope")
            ELSE IF ~SliceOk(payload, s1.p, pre.dataPos + pre.dataLen) THEN Panic(s1)
            ELSE [s1 EXCEPT !.dataPos = pre.dataPos, !.dataLen = pre.dataLen,
                            !.list = pre.list,
                            !.c.keccak1 = @ \o Slice(payload, s1.p, pre.dataPos + pre.dataLen),
                            !.p = pre.dataPos]

\* sigHashPos, and the chainId of a non-legacy transaction, skipped
ChainId(payload, s) ==
  IF s.status # "run" THEN s ELSE
  LET s1 == [s EXCEPT !.sigHashPos = s.p] IN
  IF s.legacy THEN s1
  ELSE LET pre == prefix(payload, s1.p) IN
    IF pre.st # "ok" THEN Stop(s1, pre.st, "chainId len")
    ELSE IF pre.list THEN Fail(s1, "chainId must be a string, not list")
    ELSE IF pre.dataPos + pre.dataLen >= Len(payload)
    THEN Fail(s1, "unexpected end of payload after chainId")
    ELSE [s1 EXCEPT !.dataPos = pre.dataPos, !.dataLen = pre.dataLen, !.list = pre.list,
                    !.p = pre.dataPos + pre.dataLen]

Nonce(payload, s) ==
  IF s.status # "run" THEN s ELSE
  LET u == parseUint64(payload, s.p) IN
  IF u.st # "ok" THEN Stop(s, u.st, "nonce")
  ELSE [s EXCEPT !.p = u.p, !.slot.nonce = u.r]

Tip(payload, s) ==
  IF s.status # "run" THEN s ELSE
  LET u == parseUint64(payload, s.p) IN
  IF u.st # "ok" THEN Stop(s, u.st, "tip")
  ELSE [s EXCEPT !.p = u.p, !.slot.tip = u.r]

FeeCap(payload, s) ==
  IF s.status # "run" THEN s ELSE
  IF s.txType < DynamicFeeTxType THEN [s EXCEPT !.slot.feeCap = s.slot.tip]
  ELSE LET u == parseUint64(payload, s.p) IN
    IF u.st # "ok" THEN Stop(s, u.st, "feeCap")
    ELSE [s EXCEPT !.p = u.p, !.slot.feeCap = u.r]

Gas(payload, s) ==
  IF s.status # "run" THEN s ELSE
  LET u == parseUint64(payload, s.p) IN
  IF u.st # "ok" THEN Stop(s, u.st, "gas")
  ELSE [s EXCEPT !.p = u.p, !.slot.gas = u.r]

To(payload, s) ==
  IF s.status # "run" THEN s ELSE
  LET pre == prefix(payload, s.p) IN
  IF pre.st # "ok" THEN Stop(s, pre.st, "to len")
  ELSE IF pre.list THEN Fail(s, "to must be a string, not list")
  ELSE IF pre.dataPos + pre.dataLen >= Len(payload)
  THEN Fail(s, "unexpected end of payload after to")
  ELSE IF pre.dataLen # 0 /\ pre.dataLen # 20 THEN Fail(s, "unexpected length of to field")
  ELSE [s EXCEPT !.dataPos = pre.dataPos, !.dataLen = pre.dataLen, !.list = pre.list,
                 !.slot.creation = (pre.dataLen = 0),
                 !.p = pre.dataPos + pre.dataLen]

Value(payload, s) ==
  IF s.status # "run" THEN s ELSE
  LET u == parseUint256(payload, s.p, s.slot.value) IN
  IF u.st # "ok" THEN Stop(s, u.st, "value")
  ELSE [s EXCEPT !.p = u.p, !.slot.value = u.x]

Data(payload, s) ==
  IF s.status # "run" THEN s ELSE
  LET pre == prefix(payload, s.p) IN
  IF pre.st # "ok" THEN Stop(s, pre.st, "data len")
  ELSE IF pre.list THEN Fail(s, "data must be a string, not list")
  ELSE IF pre.dataPos + pre.dataLen >= Len(payload)
  THEN Fail(s, "unexpected end of payload after data")
  ELSE [s EXCEPT !.dataPos = pre.dataPos, !.dataLen = pre.dataLen, !.list = pre.list,
                 !.slot.dataLen = pre.dataLen,
                 !.p = pre.dataPos + pre.dataLen]

\* the inner loop: the storage keys of one tuple, from s.skeyPos to storageEnd
RECURSIVE StorageKeys(_, _, _)
StorageKeys(payload, s, storageEnd) ==
  IF ~(s.skeyPos < storageEnd) THEN s
  ELSE LET kp == prefix(payload, s.skeyPos) IN
    IF kp.st # "ok" THEN Stop(s, kp.st, "tuple storage key len")
    ELSE IF kp.list THEN Fail(s, "tuple storage key must be a string, not list")
    ELSE IF kp.dataPos + kp.dataLen > storageEnd
    THEN Fail(s, "unexpected end of tuple after storage key")
    ELSE IF kp.dataLen # 32 THEN Fail(s, "unexpected length of tuple storage key")
    ELSE StorageKeys(payload,
                     [s EXCEPT !.slot.alStorCount = @ + 1, !.list = kp.list,
                               !.skeyPos = kp.dataPos + kp.dataLen],
                     storageEnd)

\* the outer loop: the tuples of the access list, from s.tuplePos to alEnd
RECURSIVE Tuples(_, _, _)
Tuples(payload, s, alEnd) ==
  IF ~(s.tuplePos < alEnd) THEN s
  ELSE LET tp == prefix(payload, s.tuplePos) IN
    IF tp.st # "ok" THEN Stop(s, tp.st, "tuple len")
    ELSE IF ~tp.list THEN Fail(s, "tuple must be a list, not string")
    ELSE IF tp.dataPos + tp.dataLen > alEnd
    THEN Fail(s, "unexpected end of access list after tuple")
    ELSE LET tupleEnd == tp.dataPos + tp.dataLen
             ap == prefix(payload, tp.dataPos)
         IN
      IF ap.st # "ok" THEN Stop(s, ap.st, "tuple addr len")
      ELSE IF ap.list THEN Fail(s, "tuple addr must be a string, not list")
      ELSE IF ap.dataPos + ap.dataLen > tupleEnd
      THEN Fail(s, "unexpected end of tuple after address")
      ELSE IF ap.dataLen # 20 THEN Fail(s, "unexpected length of tuple address")
      ELSE LET s1 == [s EXCEPT !.slot.alAddrCount = @ + 1]
               sp == prefix(payload, ap.dataPos + ap.dataLen)
           IN
        IF sp.st # "ok" THEN Stop(s1, sp.st, "storage key list len")
        ELSE IF ~sp.list THEN Fail(s1, "storage key list must be a list, not string")
        ELSE IF sp.dataPos + sp.dataLen > tupleEnd
        THEN Fail(s1, "unexpected end of tuple after storage key list")
        ELSE LET storageEnd == sp.dataPos + sp.dataLen
                 s2 == StorageKeys(payload, [s1 EXCEPT !.skeyPos = sp.dataPos], storageEnd)
             IN
          IF s2.status # "run" THEN s2
          ELSE IF s2.skeyPos # storageEnd
          THEN Fail(s2, "extraneous space in the tuple after storage key list")
          ELSE Tuples(payload,
                      [s2 EXCEPT !.tuplePos = tupleEnd, !.tupleLen = tp.dataLen],
                      alEnd)

AccessList(payload, s) ==
  IF s.status # "run" THEN s ELSE
  IF s.legacy THEN s
  ELSE LET pre == prefix(payload, s.p) IN
    IF pre.st # "ok" THEN Stop(s, pre.st, "access list len")
    ELSE IF ~pre.list THEN Fail(s, "access list must be a list, not string")
    ELSE IF pre.dataPos + pre.dataLen >= Len(payload)
    THEN Fail(s, "unexpected end of payload after access list")
    ELSE LET alEnd == pre.dataPos + pre.dataLen
             s1 == Tuples(payload,
                          [s EXCEPT !.dataPos = pre.dataPos, !.dataLen = pre.dataLen,
                                    !.list = pre.list, !.tuplePos = pre.dataPos],
                          alEnd)
         IN IF s1.status # "run" THEN s1
            ELSE IF s1.tuplePos # alEnd
            THEN Fail(s1, "extraneous space in the access list after all tuples")
            ELSE [s1 EXCEPT !.p = alEnd]

\* v > 1 on a uint64
U64Above1(u) == \E i \in 1..8 : u[i] # 0 /\ (i < 8 \/ u[i] > 1)

\* sigHashEnd, sigHashLen and V; a legacy V also gives the chainId
SigV(payload, s) ==
  IF s.status # "run" THEN s ELSE
  LET s1 == [s EXCEPT !.sigHashEnd = s.p, !.sigHashLen = s.p - s.sigHashPos] IN
  IF s.legacy
  THEN LET u == parseUint256(payload, s1.p, s1.c.v) IN
    IF u.st # "ok" THEN Stop(s1, u.st, "V")
    ELSE IF u.x = s1.c.n27 \/ u.x = s1.c.n28
    THEN [s1 EXCEPT !.p = u.p, !.c.v = u.x, !.vByte = u.x[32] % 2]
    ELSE LET sub == U256Sub(u.x, s1.c.n35)
             chainId == U256Rsh1(sub)
             chainIdBits == U256BitLen(chainId)
             chainIdLen == IF chainIdBits <= 7 THEN 1 ELSE (chainIdBits + 7) \div 8
         IN [s1 EXCEPT !.p = u.p, !.c.v = chainId, !.vByte = sub[32] % 2,
                       !.chainIdBits = chainIdBits, !.chainIdLen = chainIdLen,
                       !.sigHashLen = @ + (IF chainIdBits <= 7 THEN 0 ELSE 1) + chainIdLen]
  ELSE LET u == parseUint64(payload, s1.p) IN
    IF u.st # "ok" THEN Stop(s1, u.st, "V")
    ELSE IF U64Above1(u.r) THEN Fail(s1, "V is loo large")
    ELSE [s1 EXCEPT !.p = u.p, !.vByte = u.r[8]]

SigR(payload, s) ==
  IF s.status # "run" THEN s ELSE
  LET u == parseUint256(payload, s.p, s.c.r) IN
  IF u.st # "ok" THEN Stop(s, u.st, "R")
  ELSE [s EXCEPT !.p = u.p, !.c.r = u.x]

SigS(payload, s) ==
  IF s.status # "run" THEN s ELSE
  LET u == parseUint256(payload, s.p, s.c.s) IN
  IF u.st # "ok" THEN Stop(s, u.st, "S")
  ELSE [s EXCEPT !.p = u.p, !.c.s = u.x]

\* a legacy transaction hashes payload[pos:p]; keccak1.Sum gives idHash
IdHash(payload, s) ==
  IF s.status # "run" THEN s ELSE
  IF s.legacy /\ ~SliceOk(payload, s.pos, s.p) THEN Panic(s)
  ELSE LET k1 == IF s.legacy THEN s.c.keccak1 \o Slice(payload, s.pos, s.p)
                 ELSE s.c.keccak1
       IN [s EXCEPT !.c.keccak1 = k1, !.slot.idHash = Keccak256(k1)]

\* the length prefix written to keccak2
SigHashPrefix(payload, s) ==
  IF s.status # "run" THEN s ELSE
  IF s.sigHashLen < 56
  THEN LET buf == [s.c.buf EXCEPT ![1] = ((s.sigHashLen % 256) + 128) % 256]
       IN [s EXCEPT !.c.buf = buf, !.c.keccak2 = @ \o Slice(buf, 0, 1)]
  ELSE LET beLen == (BitsLen(s.sigHashLen) + 7) \div 8
           buf1 == PutUint64(s.c.buf, 1, IntBytes(s.sigHashLen, 8))
           buf == [buf1 EXCEPT ![8 - beLen + 1] = beLen + 183]
       IN [s EXCEPT !.c.buf = buf, !.c.keccak2 = @ \o Slice(buf, 8 - beLen, 9)]

\* the chainId of a legacy transaction written to keccak2
SigHashChainId(payload, s) ==
  IF s.status # "run" THEN s ELSE
  IF ~(s.legacy /\ s.chainIdLen > 0) THEN s
  ELSE IF s.chainIdBits <= 7
  THEN LET buf == [s.c.buf EXCEPT ![1] = s.c.v[32]]
       IN [s EXCEPT !.c.buf = buf, !.c.keccak2 = @ \o Slice(buf, 0, 1)]
  ELSE LET b1 == PutUint64(s.c.buf, 1, Limb(s.c.v, 3))
           b2 == PutUint64(b1, 9, Limb(s.c.v, 2))
           b3 == PutUint64(b2, 17, Limb(s.c.v, 1))
           b4 == PutUint64(b3, 25, Limb(s.c.v, 0))
           buf == [b4 EXCEPT ![32 - s.chainIdLen + 1] = (128 + s.chainIdLen) % 256]
       IN [s EXCEPT !.c.buf = buf, !.c.keccak2 = @ \o Slice(buf, 32 - s.chainIdLen, 33)]

\* payload[sigHashPos:sigHashEnd] written to keccak2, and keccak2.Sum
SigHashBody(payload, s) ==
  IF s.status # "run" THEN s ELSE
  IF ~SliceOk(payload, s.sigHashPos, s.sigHashEnd) THEN Panic(s)
  ELSE LET k2 == s.c.keccak2 \o Slice(payload, s.sigHashPos, s.sigHashEnd)
       IN [s EXCEPT !.c.keccak2 = k2, !.c.sighash = Keccak256(k2)]

\* r, s and the parity byte packed into ctx.sig; the normal return
PackSig(payload, s) ==
  IF s.status # "run" THEN s ELSE
  LET g0 == PutUint64(s.c.sig, 0, Limb(s.c.r, 3))
      g1 == PutUint64(g0, 8, Limb(s.c.r, 2))
      g2 == PutUint64(g1, 16, Limb(s.c.r, 1))
      g3 == PutUint64(g2, 24, Limb(s.c.r, 0))
      g4 == PutUint64(g3, 32, Limb(s.c.s, 3))
      g5 == PutUint64(g4, 40, Limb(s.c.s, 2))
      g6 == PutUint64(g5, 48, Limb(s.c.s, 1))
      g7 == PutUint64(g6, 56, Limb(s.c.s, 0))
  IN [s EXCEPT !.c.sig = [g7 EXCEPT ![65] = s.vByte], !.status = "ok"]

\* the sections of ParseTransaction after the outer prefix, in the order of the
\* source; each is skipped once the function has returned or panicked
Section(i, payload, s) ==
  CASE i = 1 -> Envelope(payload, s)
    [] i = 2 -> ChainId(payload, s)
    [] i = 3 -> Nonce(payload, s)
    [] i = 4 -> Tip(payload, s)
    [] i = 5 -> FeeCap(payload, s)
    [] i = 6 -> Gas(payload, s)
    [] i = 7 -> To(payload, s)
    [] i = 8 -> Value(payload, s)
    [] i = 9 -> Data(payload, s)
    [] i = 10 -> AccessList(payload, s)
    [] i = 11 -> SigV(payload, s)
    [] i = 12 -> SigR(payload, s)
    [] i = 13 -> SigS(payload, s)
    [] i = 14 -> IdHash(payload, s)
    [] i = 15 -> SigHashPrefix(payload, s)
    [] i = 16 -> SigHashChainId(payload, s)
    [] i = 17 -> SigHashBody(payload, s)
    [] i = 18 -> PackSig(payload, s)

\* the locals after the outer prefix and the first i sections
RECURSIVE WalkTo(_, _, _, _)
WalkTo(i, c, payload, pos) ==
  IF i = 0 THEN OuterPrefix(c, payload, pos)
  ELSE Section(i, payload, WalkTo(i - 1, c, payload, pos))

\* the locals when ParseTransaction returns or panics
Walk(c, payload, pos) == WalkTo(18, c, payload, pos)

\* what the caller gets from the locals s: (*TxSlot, int, error), or a panic;
\* and the context after the call
Return(s) ==
  [ctx |-> s.c,
   ret |-> IF s.status = "ok"
           THEN [status |-> "ok", slot |-> s.slot, end |-> s.p, err |-> ""]
           ELSE [status |-> s.status, slot |-> TxSlot, end |-> 0, err |-> s.err]]

ParseTransaction(c, payload, pos) == Return(Walk(c, payload, pos))

----------------------------------------------------------------------------
(* The inputs: transactions, their canonical RLP serialization, and         *)
(* payloads that depart from it in one place                                *)

MaxTuples == 2
MaxKeys == 2
MaxHistory == 1

\* the minimal big-endian bytes of a number (none for 0)
RECURSIVE MinBytes(_)
MinBytes(n) == IF n = 0 THEN <<>> ELSE MinBytes(n \div 256) \o <<n % 256>>

RECURSIVE Concat(_)
Concat(seqs) == IF seqs = <<>> THEN <<>> ELSE Head(seqs) \o Concat(Tail(seqs))

Fill(n, b) == [i \in 1..n |-> b]

RlpLen(n, base) ==
  IF n < 56 THEN <<base + n>>
  ELSE <<base + 55 + Len(MinBytes(n))>> \o MinBytes(n)

RlpString(b) ==
  IF Len(b) = 1 /\ b[1] < 128 THEN b ELSE RlpLen(Len(b), 128) \o b

RlpList(body) == RlpLen(Len(body), 192) \o body

Addr == [i \in 1..20 |-> 160 + i]

Key(k) == [i \in 1..32 |-> IF i = 32 THEN k ELSE 0]

BigR == [i \in 1..32 |-> 136 + (i % 7)]

AccessLists ==
  {<<>>} \cup
  {[i \in 1..n |-> [addr |-> Addr, keys |-> [j \in 1..k |-> Key(j)]]] :
     n \in 1..MaxTuples, k \in 0..MaxKeys}

BaseTx(type) ==
  [type |-> type, chainId |-> 1, protected |-> (type = 0), parity |-> 0,
   nonce |-> <<>>, tip |-> <<1>>, feeCap |-> IF type = 2 THEN <<3>> ELSE <<1>>,
   gas |-> <<82, 8>>, to |-> Addr, value |-> <<122, 105>>, data |-> <<>>,
   al |-> <<>>, r |-> BigR, s |-> <<69, 224>>]

Types == {LegacyTxType, AccessListTxType, DynamicFeeTxType}

U64Values == {<<>>, <<1>>, <<127>>, <<128>>, <<1, 0>>, Fill(8, 255)}

Txs ==
  {[BaseTx(t) EXCEPT !.nonce = n] : t \in Types, n \in U64Values}
  \cup {[BaseTx(t) EXCEPT !.tip = n, !.feeCap = IF t = 2 THEN <<3>> ELSE n] :
          t \in Types, n \in {<<>>, <<200>>}}
  \cup {[BaseTx(2) EXCEPT !.feeCap = n] : n \in {<<>>, <<127>>, Fill(8, 255)}}
  \cup {[BaseTx(t) EXCEPT !.gas = n] : t \in Types, n \in {<<>>, Fill(8, 255)}}
  \cup {[BaseTx(t) EXCEPT !.to = a] : t \in Types, a \in {<<>>, Fill(20, 0)}}
  \cup {[BaseTx(t) EXCEPT !.value = n] : t \in Types, n \in {<<>>, <<128>>, Fill(32, 255)}}
  \cup {[BaseTx(t) EXCEPT !.data = d] :
          t \in Types, d \in {<<5>>, <<200>>, <<0, 0>>, Fill(60, 7)}}
  \cup {[BaseTx(t) EXCEPT !.al = a] : t \in {1, 2}, a \in AccessLists}
  \cup {[BaseTx(t) EXCEPT !.parity = 1] : t \in Types}
  \cup {[BaseTx(0) EXCEPT !.protected = FALSE, !.parity = y] : y \in {0, 1}}
  \cup {[BaseTx(0) EXCEPT !.chainId = c, !.parity = y] : c \in {0, 63, 64, 300}, y \in {0, 1}}
  \cup {[BaseTx(t) EXCEPT !.chainId = c] : t \in {1, 2}, c \in {0, 300}}
  \cup {[BaseTx(t) EXCEPT !.r = <<1>>, !.s = BigR] : t \in Types}
  \cup {[BaseTx(t) EXCEPT !.r = <<>>, !.s = <<>>] : t \in Types}

\* the V of the wire form
WireV(T) ==
  IF T.type # 0 THEN T.parity
  ELSE IF T.protected THEN 35 + 2 * T.chainId + T.parity
  ELSE 27 + T.parity

Canonical == [kind |-> "canonical", field |-> "", arg |-> 0]

\* a string item, encoded canonically unless m departs at field f
EncString(f, b, m) ==
  IF m.field # f THEN RlpString(b)
  ELSE IF m.kind = "leadingZero" THEN RlpString(<<0>> \o b)
  ELSE IF m.kind = "overlong"
  THEN (IF Len(b) = 1 /\ b[1] < 128 THEN <<129>> \o b
        ELSE IF Len(b) < 56 THEN <<184, Len(b)>> \o b
        ELSE <<185, 0, Len(b)>> \o b)
  ELSE IF m.kind = "wrongKind" THEN RlpList(b)
  ELSE RlpString(b)

\* a list item, encoded canonically unless m departs at field f
EncList(f, body, m) ==
  IF m.field # f THEN RlpList(body)
  ELSE IF m.kind = "overlong"
  THEN (IF Len(body) < 56 THEN <<248, Len(body)>> \o body
        ELSE <<249, 0, Len(body)>> \o body)
  ELSE IF m.kind = "wrongKind" THEN RlpString(body)
  ELSE RlpList(body)

EncTuple(tuple, m) ==
  LET addr == IF m.kind = "badAddr" THEN Tail(tuple.addr) ELSE tuple.addr
      keys == [j \in 1..Len(tuple.keys) |->
                 RlpString(IF m.kind = "badKey" THEN Tail(tuple.keys[j]) ELSE tuple.keys[j])]
  IN EncList("tuple",
             EncString("addr", addr, m) \o EncList("keys", Concat(keys), m)
               \o (IF m.kind = "tupleSlack" THEN <<128>> ELSE <<>>),
             m)

EncAccessList(al, m) ==
  EncList("accessList",
          Concat([i \in 1..Len(al) |-> EncTuple(al[i], m)])
            \o (IF m.kind = "alSlack" THEN <<128>> ELSE <<>>),
          m)

\* the fields from chainId (typed) or nonce (legacy) up to the signature
Unsigned(T, m) ==
  (IF T.type # 0 THEN EncString("chainId", MinBytes(T.chainId), m) ELSE <<>>)
  \o EncString("nonce", T.nonce, m)
  \o EncString("tip", T.tip, m)
  \o (IF T.type = 2 THEN EncString("feeCap", T.feeCap, m) ELSE <<>>)
  \o EncString("gas", T.gas, m)
  \o EncString("to", T.to, m)
  \o EncString("value", T.value, m)
  \o EncString("data", T.data, m)
  \o (IF T.type # 0 THEN EncAccessList(T.al, m) ELSE <<>>)

Signature(T, m) ==
  EncString("v", MinBytes(WireV(T)), m)
  \o (IF m.kind = "endAfterV" THEN <<>> ELSE EncString("r", T.r, m))
  \o (IF m.kind \in {"endAfterV", "endAfterR"} THEN <<>> ELSE EncString("s", T.s, m))
  \o (IF m.kind = "extraField" THEN <<m.arg>> ELSE <<>>)

\* type byte followed by the inner list: the bytes a typed transaction is hashed over
TypedBytes(T, m) ==
  <<IF m.kind = "badType" THEN m.arg ELSE T.type>>
  \o EncList("envelope", Unsigned(T, m) \o Signature(T, m), m)

\* the payload handed to ParseTransaction: a legacy transaction is one RLP list,
\* a typed one is one RLP string holding the type byte and the inner list
Encode(T, m) ==
  LET wire == IF T.type = 0 THEN EncList("envelope", Unsigned(T, m) \o Signature(T, m), m)
              ELSE IF m.kind = "bare" THEN TypedBytes(T, m)
              ELSE EncString("wrapper", TypedBytes(T, m), m)
  IN wire \o (IF m.kind = "trailing" THEN <<m.arg>> ELSE <<>>)

Serialize(T) == Encode(T, Canonical)

Item(T, m) ==
  [bytes |-> Encode(T, m), tx |-> T, kind |-> m.kind, field |-> m.field, arg |-> m.arg]

Mut(kind, field, arg) == [kind |-> kind, field |-> field, arg |-> arg]

OneTuple == <<[addr |-> Addr, keys |-> <<Key(1)>>]>>

\* the transactions the departures start from: a short one and a long one of each shape
MutBases ==
  {[BaseTx(t) EXCEPT !.nonce = <<9>>, !.r = <<1>>, !.s = <<2>>, !.data = <<5>>] : t \in Types}
  \cup {[BaseTx(t) EXCEPT !.nonce = <<9>>, !.al = IF t = 0 THEN <<>> ELSE OneTuple,
                          !.data = IF t = 0 THEN Fill(60, 7) ELSE <<>>] : t \in Types}

ScalarFields(T) ==
  {"nonce", "tip", "gas", "value", "v", "r", "s"}
  \cup (IF T.type # 0 THEN {"chainId"} ELSE {})
  \cup (IF T.type = 2 THEN {"feeCap"} ELSE {})

StringFields(T) ==
  ScalarFields(T) \cup {"to", "data"}
  \cup (IF T.type # 0 THEN {"wrapper"} ELSE {})
  \cup (IF T.al # <<>> THEN {"addr"} ELSE {})

ListFields(T) ==
  {"envelope"}
  \cup (IF T.type # 0 THEN {"accessList"} ELSE {})
  \cup (IF T.al # <<>> THEN {"tuple", "keys"} ELSE {})

Departures(T) ==
  {Mut("leadingZero", f, 0) : f \in ScalarFields(T)}
  \cup {Mut(k, f, 0) : k \in {"overlong", "wrongKind"}, f \in StringFields(T) \cup ListFields(T)}
  \cup {Mut("extraField", "", a) : a \in {1, 128}}
  \cup {Mut(k, "", 0) : k \in {"endAfterV", "endAfterR"}}
  \cup {Mut("trailing", "", a) : a \in {0, 128, 192}}
  \cup (IF T.type # 0
        THEN {Mut("badType", "", a) : a \in {0, 3, 127}}
             \cup {Mut(k, "", 0) : k \in {"bare", "alSlack"}}
        ELSE {})
  \cup (IF T.al # <<>> THEN {Mut(k, "", 0) : k \in {"tupleSlack", "badAddr", "badKey"}} ELSE {})

\* byte strings that are no transaction at all
Raws ==
  {<<>>, <<1>>, <<128>>, <<192>>, <<184>>, <<248>>, <<129, 1>>, <<248, 1>>,
   <<193, 128>>, <<130, 1, 248>>, <<130, 1, 192>>}

Items ==
  {Item(T, Canonical) : T \in Txs}
  \cup UNION {{Item(T, m) : m \in Departures(T)} : T \in MutBases}
  \cup {[bytes |-> b, tx |-> BaseTx(0), kind |-> "raw", field |-> "", arg |-> 0] : b \in Raws}

\* what the worker may have parsed before, with the same context
ReuseItems ==
  {Item(BaseTx(0), Canonical), Item(BaseTx(2), Canonical),
   Item(BaseTx(1), Mut("leadingZero", "nonce", 0)),
   [bytes |-> <<>>, tx |-> BaseTx(0), kind |-> "raw", field |-> "", arg |-> 0]}

RECURSIVE Histories(_)
Histories(n) ==
  IF n = 0 THEN {<<>>}
  ELSE Histories(n - 1)
       \cup {Append(h, x) : h \in {g \in Histories(n - 1) : Len(g) = n - 1}, x \in ReuseItems}

Batches == {h \o <<it>> : h \in Histories(MaxHistory), it \in Items}

NoItem == [bytes |-> <<>>, tx |-> BaseTx(0), kind |-> "none", field |-> "", arg |-> 0]

NoReturn == [status |-> "none", slot |-> TxSlot, end |-> 0, err |-> ""]

----------------------------------------------------------------------------
(* The worker: one context, a batch of payloads parsed one after another *)

Init ==
  /\ ctx = NewTxParseContext
  /\ queue \in Batches
  /\ input = NoItem
  /\ result = NoReturn
  /\ calls = 0

\* the worker calls ctx.ParseTransaction(payload, 0) on the next payload of its
\* batch; a panic ends the worker
Returned(out) ==
  /\ ctx' = out.ctx
  /\ result' = out.ret

CallParseTransaction ==
  /\ queue # <<>>
  /\ result.status # "panic"
  /\ Returned(ParseTransaction(ctx, Head(queue).bytes, 0))
  /\ input' = Head(queue)
  /\ queue' = Tail(queue)
  /\ calls' = calls + 1

Next == CallParseTransaction

Spec == Init /\ [][Next]_vars

----------------------------------------------------------------------------
(* The claims *)

T == input.tx

Parsed == calls > 0

RECURSIVE KeyCount(_)
KeyCount(al) == IF al = <<>> THEN 0 ELSE Len(Head(al).keys) + KeyCount(Tail(al))

\* the bytes a transaction is identified by: the whole outer list of a legacy
\* transaction, the type byte and the inner list of a typed one
CanonicalBytes(tx) == IF tx.type = 0 THEN Serialize(tx) ELSE TypedBytes(tx, Canonical)

\* the signing pre-image: the type byte of a typed transaction, then the RLP list
\* of the fields before the signature, a protected legacy transaction adding
\* chainId, 0x80, 0x80 to them
SigningPreimage(tx) ==
  IF tx.type # 0 THEN <<tx.type>> \o RlpList(Unsigned(tx, Canonical))
  ELSE IF tx.protected
  THEN RlpList(Unsigned(tx, Canonical) \o RlpString(MinBytes(tx.chainId)) \o <<128, 128>>)
  ELSE RlpList(Unsigned(tx, Canonical))

\* what may follow a payload
Tails == {<<0>>, <<128>>, <<192>>, <<1, 2>>, Serialize(BaseTx(0))}

\* C1: a call on a context that has parsed before gives the result, idHash,
\* sigHash and sig that the same call gives on a new context
C1_HistoryIndependent ==
  Parsed =>
    LET fresh == ParseTransaction(NewTxParseContext, input.bytes, 0) IN
      /\ result = fresh.ret
      /\ result.status = "ok" =>
           /\ ctx.sighash = fresh.ctx.sighash
           /\ ctx.sig = fresh.ctx.sig

C3_SigHashPreimage ==
  (calls = 1 /\ input.kind = "canonical" /\ result.status = "ok") =>
    ctx.keccak2 = SigningPreimage(T)

\* C4: after a successful parse sig is r, then s, both as 32 big-endian bytes,
\* then the parity: v - 27 for a legacy v of 27 or 28, (v - 35) & 1 for a legacy
\* v from 35, v itself for a typed transaction
C4_SignatureParity ==
  (Parsed /\ input.kind = "canonical" /\ result.status = "ok") =>
    ctx.sig = Pad(T.r, 32) \o Pad(T.s, 32) \o <<T.parity>>

\* C5: a successful parse returns the length of the payload as end position
C5_EndIsLen ==
  result.status = "ok" => result.end = Len(input.bytes)

\* C6: on a non-empty payload the call returns a descriptor or an error; it does
\* not index or slice the payload out of range
C6_NoOutOfBounds ==
  (Parsed /\ input.bytes # <<>>) => result.status \in {"ok", "err"}

\* C7: a payload with a leading-zero scalar, an over-long prefix or an item of
\* the wrong kind is rejected
C7_NonCanonicalRejected ==
  (Parsed /\ input.kind \in {"leadingZero", "overlong", "wrongKind"}) =>
    result.status = "err"

\* C8: a payload that parses is rejected with any bytes appended
C8_TrailingRejected ==
  result.status = "ok" =>
    \A x \in Tails : ParseTransaction(ctx, input.bytes \o x, 0).ret.status = "err"

C8_Witness ==
  /\ result.status = "ok"
  /\ input.kind = "canonical"
  /\ T.type = 1
  /\ ParseTransaction(ctx, input.bytes \o <<0>>, 0).ret.err
       = "transaction must be either 1 list or 1 string"

\* C9: no descriptor is produced for a payload whose outer item is a string and
\* whose first string byte is neither 0x01 nor 0x02
C9_UnsupportedTypeRejected ==
  (result.status = "ok" /\ ~prefix(input.bytes, 0).list) =>
    At(input.bytes, prefix(input.bytes, 0).dataPos) \in {AccessListTxType, DynamicFeeTxType}

\* C10: a typed transaction whose access list has bytes in a tuple after the
\* storage-key list, bytes outside its tuples, an address that is not 20 bytes
\* or a key that is not 32 bytes is not accepted
C10_AccessListShape ==
  (Parsed /\ input.kind \in {"tupleSlack", "alSlack", "badAddr", "badKey"}) =>
    result.status # "ok"

====
